---- MODULE Spec2Model ----
(***************************************************************************)
(* Lampshade generator: the parameter model (lampshade/params.py), the     *)
(* mesh engine (lampshade/geometry.py) and the window's handlers           *)
(* (lampshade/main_window.py).                                             *)
(*                                                                         *)
(* Numbers.  Python floats are modelled in fixed point: a float x is the   *)
(* integer x * ONE (thousandths).  Lengths are then micrometres, angles    *)
(* milliradians and the height parameter u runs over 0..ONE.  Diameters,   *)
(* radii, transitionWidth and the feature-depth bound are multiples of     *)
(* 1/4 mm in the program, so they are exact here.  Python ints (the        *)
(* diameters, featureCount, detail, overhangAngle, designMode, the slider  *)
(* positions) stay integers.                                               *)
(***************************************************************************)
EXTENDS Integers, Sequences, FiniteSets, TLC

VARIABLES
    P,          \* the Params instance (params.py:7-49)
    pc,         \* position inside the running call
    loop_i,     \* build_mesh_arrays: i of the loop in progress
    loop_j,     \* build_mesh_arrays: j of the loop in progress
    center,     \* build_mesh_arrays: center_bottom, then center_top
    vertices,   \* build_mesh_arrays: the vertex list (geometry.py:121)
    faces,      \* build_mesh_arrays: the face list   (geometry.py:122)
    samples,    \* per vertex: what compute_outer_vertex evaluated for it
    ui,         \* the widgets' values (main_window.py:39-67)
    timerActive,\* update_timer is running (main_window.py:87-90)
    loadStatus, \* outcome of the last on_load
    Pentry      \* P as it was when the call in progress was entered

vars == <<P, pc, loop_i, loop_j, center, vertices, faces, samples, ui, timerActive, loadStatus, Pentry>>

-----------------------------------------------------------------------------
(* Fixed-point arithmetic *)

ONE == 1000

\* math.pi, in thousandths
PI == 3142

HALF_PI == PI \div 2
TWO_PI == 2 * PI

Abs(x) == IF x < 0 THEN -x ELSE x
Min2(a, b) == IF a <= b THEN a ELSE b
Max2(a, b) == IF a >= b THEN a ELSE b
Min3(a, b, c) == Min2(a, Min2(b, c))

\* float division, rounding toward zero
Quot(a, b) ==
    IF (a >= 0) = (b > 0) THEN Abs(a) \div Abs(b) ELSE -(Abs(a) \div Abs(b))

\* float product of two fixed-point numbers
Mul(a, b) == Quot(a * b, ONE)

\* int -> float
ToFloat(n) == n * ONE

\* The Taylor polynomial x(1 - x^2/6 (1 - x^2/20 (1 - x^2/42))), x2 being x^2
SinPoly(x, x2) ==
    Mul(x, ONE - Quot(Mul(x2, ONE - Quot(Mul(x2, ONE - Quot(x2, 42)), 20)), 6))

\* math.sin on the first quadrant 0..HALF_PI, saturated at 1 as math.sin is
SinQ(x) == Min2(ONE, Max2(0, SinPoly(x, Mul(x, x))))

\* The angle of the first quadrant with the sine of r in 0..TWO_PI, up to sign
FirstQuadrant(r) ==
    IF r <= HALF_PI THEN r
    ELSE IF r <= PI THEN PI - r
    ELSE IF r <= PI + HALF_PI THEN r - PI
    ELSE TWO_PI - r

\* The sign of the sine of r in 0..TWO_PI
SinSign(r) == IF r <= PI THEN 1 ELSE -1

\* math.sin of r in 0..TWO_PI
SinTurn(r) == SinSign(r) * SinQ(FirstQuadrant(r))

\* math.sin
Sin(x) == SinTurn(x % TWO_PI)

\* math.cos
Cos(x) == Sin(x + HALF_PI)

\* math.tan
Tan(x) == Quot(Sin(x) * ONE, Cos(x))

\* math.radians
Radians(deg) == Quot(deg * PI, 180)

\* math.floor of a fixed-point number, as a fixed-point number
Floor(x) == (x \div ONE) * ONE

\* utils.lerp
lerp(a, b, t) == Mul(a, ONE - t) + Mul(b, t)

\* utils.clamp
clamp(x, lo, hi) == Max2(lo, Min2(hi, x))

-----------------------------------------------------------------------------
(* params.py: the Params dataclass *)

\* Slider ranges (class defaults; no code assigns them)
topDiameterMin == 16
topDiameterMax == 100
middleDiameterMin == 30
middleDiameterMax == 120
bottomDiameterMin == 30
bottomDiameterMax == 120
overhangAngleMin == 30
overhangAngleMax == 80
cylinderHeightMin == 50
cylinderHeightMax == 120
featureCountMin == 1
featureCountMax == 10
detailMin == 25
detailMax == 300

\* Params(): the dataclass defaults
DefaultParams ==
    [ mountCylinderOuterDiameter |-> 13000,
      mountCylinderHeight        |-> 5500,
      transitionHeight           |-> 15000,
      transitionWidth            |-> 0,
      overhangAngle              |-> 30,
      featureDepthMin            |-> 0,
      featureDepthMax            |-> 4000,
      topDiameter                |-> 30,
      middleDiameter             |-> 70,
      bottomDiameter             |-> 60,
      cylinderHeight             |-> 80,
      featureCount               |-> 6,
      featureDepth               |-> 2000,
      designMode                 |-> 1,
      interpolation              |-> 0,
      detail                     |-> 120 ]

\* Params.update_transition
update_transition(p) ==
    LET tw == Quot(ToFloat(p.topDiameter) - p.mountCylinderOuterDiameter, 2)
    IN  [p EXCEPT !.transitionWidth = tw,
                  !.transitionHeight =
                      Mul(Max2(0, tw), Tan(Radians(p.overhangAngle)))]

\* outerRadius of update_feature_depth_max
MountOuterRadius(p) == Quot(p.mountCylinderOuterDiameter, 2)

\* smallestMainCylinderRadius of update_feature_depth_max
MinimalMainRadius(p) ==
    Quot(Min3(ToFloat(p.topDiameter) + p.transitionWidth,
              ToFloat(p.bottomDiameter),
              ToFloat(p.middleDiameter)), 2)

\* A slip: the bound replaces featureDepthMax but featureDepth is not clamped
update_feature_depth_max_noclamp(p) ==
    [p EXCEPT !.featureDepthMax =
                  Min2(Max2(0, MinimalMainRadius(p) - MountOuterRadius(p)),
                       p.featureDepthMax)]

\* A slip: the bound replaces featureDepthMax without regard to its
\* previous value
update_feature_depth_max_reset(p) ==
    [p EXCEPT !.featureDepthMax =
                  Max2(0, MinimalMainRadius(p) - MountOuterRadius(p)),
              !.featureDepth =
                  clamp(p.featureDepth, p.featureDepthMin,
                        Max2(p.featureDepthMin,
                             Max2(0, MinimalMainRadius(p) - MountOuterRadius(p))))]

\* A slip: featureDepth is clamped under the featureDepthMax of before the
\* call
update_feature_depth_max_stale(p) ==
    [p EXCEPT !.featureDepthMax =
                  Min2(Max2(0, MinimalMainRadius(p) - MountOuterRadius(p)),
                       p.featureDepthMax),
              !.featureDepth =
                  clamp(p.featureDepth, p.featureDepthMin,
                        Max2(p.featureDepthMin, p.featureDepthMax))]

\* Params.update_feature_depth_max
update_feature_depth_max(p) ==
    LET fdMax == Min2(Max2(0, MinimalMainRadius(p) - MountOuterRadius(p)),
                      p.featureDepthMax)
    IN  [p EXCEPT !.featureDepthMax = fdMax,
                  !.featureDepth =
                      clamp(p.featureDepth, p.featureDepthMin,
                            Max2(p.featureDepthMin, fdMax))]

-----------------------------------------------------------------------------
(* geometry.py: profile, pattern and the outer-surface vertex *)

\* float quotient a / b of two fixed-point numbers
FDiv(a, b) == Quot(a * ONE, b)

\* P.topDiameter / 2.0 and its siblings
HalfOf(d) == Quot(ToFloat(d), 2)

\* A slip: the Lagrange basis weights of the rims exchanged
quadratic_profile_swapped(u, p) ==
    IF p.interpolation = 1
    THEN   Mul(Mul(2 * (u - ONE), u - (ONE \div 2)), HalfOf(p.bottomDiameter))
         - Mul(Mul(4 * (u - ONE), u), HalfOf(p.middleDiameter))
         + Mul(Mul(2 * u, u - (ONE \div 2)), HalfOf(p.topDiameter))
    ELSE IF p.interpolation = 2
    THEN IF u <= ONE \div 2
         THEN lerp(HalfOf(p.middleDiameter), HalfOf(p.topDiameter),
                   FDiv(u, ONE \div 2))
         ELSE lerp(HalfOf(p.bottomDiameter), HalfOf(p.middleDiameter),
                   FDiv(u - (ONE \div 2), ONE \div 2))
    ELSE   Mul(Mul(u, u), HalfOf(p.topDiameter))
         + Mul(Mul(2 * (ONE - u), u), HalfOf(p.middleDiameter))
         + Mul(Mul(ONE - u, ONE - u), HalfOf(p.bottomDiameter))

\* quadratic_profile
quadratic_profile(u, p) ==
    IF p.interpolation = 1
    THEN   Mul(Mul(2 * (u - ONE), u - (ONE \div 2)), HalfOf(p.topDiameter))
         - Mul(Mul(4 * (u - ONE), u), HalfOf(p.middleDiameter))
         + Mul(Mul(2 * u, u - (ONE \div 2)), HalfOf(p.bottomDiameter))
    ELSE IF p.interpolation = 2
    THEN IF u <= ONE \div 2
         THEN lerp(HalfOf(p.topDiameter), HalfOf(p.middleDiameter),
                   FDiv(u, ONE \div 2))
         ELSE lerp(HalfOf(p.middleDiameter), HalfOf(p.bottomDiameter),
                   FDiv(u - (ONE \div 2), ONE \div 2))
    ELSE   Mul(Mul(ONE - u, ONE - u), HalfOf(p.topDiameter))
         + Mul(Mul(2 * (ONE - u), u), HalfOf(p.middleDiameter))
         + Mul(Mul(u, u), HalfOf(p.bottomDiameter))

\* The twelve patterns of design_offset, for designMode m >= 1
Pattern(m, fd, fc, u, v) ==
    CASE m = 1 -> Mul(Mul(fd, Sin(Mul(Mul(fc, PI), u))), Cos(Mul(fc, v)))
      [] m = 2 -> Mul(fd, Sin(Mul(fc, v + Mul(PI, u))))
      [] m = 3 -> Mul(fd, Abs(Sin(Mul(fc, v))))
      [] m = 4 -> Mul(fd, Abs(Sin(Mul(Mul(fc, PI), u))) + Abs(Sin(Mul(fc, v))))
      [] m = 5 -> Mul(Mul(fd, Sin(Mul(fc, v + u))), Sin(Mul(fc, v - u)))
      [] m = 6 -> Mul(fd, Sin(Mul(fc, v + Mul(ONE \div 2,
                                              Sin(Mul(2 * PI, u))))))
      [] m = 7 -> Mul(fd, Abs(Sin(Mul(fc, v))) - Abs(Sin(Mul(Mul(fc, PI), u))))
      [] m = 8 -> Mul(Mul(fd, ONE \div 2),
                      Sin(Mul(fc, v)) + Sin(Mul(fc + ONE, v) + Mul(2 * PI, u)))
      [] m = 9 -> Mul(Mul(fd, 7 * (ONE \div 10)),
                      Cos(Mul(Mul(fc * 2, PI), u)))
      [] m = 10 -> LET phase == Mul(fc, u)
                   IN  Mul(Mul(fd, 8 * (ONE \div 10)),
                           Abs(2 * (phase - Floor(phase + (ONE \div 2)))))
      [] m = 11 -> Mul(Mul(fd, 9 * (ONE \div 10)),
                       Abs(Sin(Mul(Mul(fc, PI), u) + v)))
      [] m = 12 -> LET d == Cos(Mul(Mul(fc * 2, PI), u) + 2 * v)
                            + Mul(7 * (ONE \div 10),
                                  Sin(Mul(fc, v) + Mul(u, 27 * (ONE \div 10))))
                   IN  Mul(Mul(fd, ONE \div 2), d)
      [] OTHER -> 0

\* A slip: the crosshatch pattern (4) given a third ridge term
design_offset_three(u, v, p) ==
    IF p.designMode <= 0 THEN 0
    ELSE IF p.designMode = 4
    THEN LET fc == ToFloat(p.featureCount)
         IN  Mul(p.featureDepth,
                 Abs(Sin(Mul(Mul(fc, PI), u))) + Abs(Sin(Mul(fc, v)))
                 + Abs(Cos(Mul(fc, v + v))))
    ELSE Pattern(p.designMode, p.featureDepth, ToFloat(p.featureCount), u, v)

\* A slip: an unrecognized designMode wraps around onto the twelve patterns
design_offset_wrapped(u, v, p) ==
    IF p.designMode <= 0 THEN 0
    ELSE Pattern(((p.designMode - 1) % 12) + 1, p.featureDepth,
                 ToFloat(p.featureCount), u, v)

\* design_offset
design_offset(u, v, p) ==
    IF p.designMode <= 0 THEN 0
    ELSE Pattern(p.designMode, p.featureDepth, ToFloat(p.featureCount), u, v)

\* x, y, z of compute_outer_vertex, given its r
VertexAt(r, u, v, p) ==
    << Mul(r, Cos(v)),
       lerp(HalfOf(p.cylinderHeight), -HalfOf(p.cylinderHeight), u),
       Mul(r, Sin(v)) >>

\* r = max(0.0, baseR + offset), kept with what it was computed from
SampleOf(u, v, baseR, offset) ==
    [ kind |-> "outer", u |-> u, v |-> v,
      baseR |-> baseR, offset |-> offset, r |-> Max2(0, baseR + offset) ]

\* baseR, offset and r of compute_outer_vertex
OuterSample(u, v, p) ==
    SampleOf(u, v, quadratic_profile(u, p), design_offset(u, v, p))

\* compute_outer_vertex
compute_outer_vertex(u, v, p) == VertexAt(OuterSample(u, v, p).r, u, v, p)

\* The entry of a vertex that compute_outer_vertex did not produce
PlainSample ==
    [ kind |-> "plain", u |-> 0, v |-> 0, baseR |-> 0, offset |-> 0, r |-> 0 ]

-----------------------------------------------------------------------------
(* geometry.py: build_mesh_arrays.  A mesh under construction is the record *)
(* [vertices, faces, samples]; each operator below is one pass of a loop    *)

\* The lists as build_mesh_arrays creates them
EmptyMesh == [vertices |-> <<>>, faces |-> <<>>, samples |-> <<>>]

\* add_vertex: appends the point; its return value is IndexOfLast of the result
add_vertex(m, pt, smp) ==
    [m EXCEPT !.vertices = Append(@, pt), !.samples = Append(@, smp)]

\* A slip: the index handed out is the length of the list after the append
IndexOfLast_length(m) == Len(m.vertices)

\* len(vertices) - 1
IndexOfLast(m) == Len(m.vertices) - 1

\* add_tri
add_tri(m, a, b, c) == [m EXCEPT !.faces = Append(@, <<a, b, c>>)]

\* v_at
v_at(j, n) == Mul(FDiv(ToFloat(j), ToFloat(n)), 2 * PI)

\* float(i) / float(detail)
GridAt(i, n) == FDiv(ToFloat(i), ToFloat(n))

\* int(P.detail)
DetailOf(p) == p.detail

\* A vertex to append: its point and, for an outer vertex, its sample
Entry(pt, smp) == [pt |-> pt, smp |-> smp]

\* compute_outer_vertex(u, v, P), from its sample s
EntryOf(s, u, v, p) == Entry(VertexAt(s.r, u, v, p), s)

\* compute_outer_vertex(u, v, P) as a vertex to append
OuterEntry(u, v, p) == EntryOf(OuterSample(u, v, p), u, v, p)

\* A vertex that compute_outer_vertex did not produce, to append
PlainEntry(pt) == Entry(pt, PlainSample)

\* add_vertex(e)
add_entry(m, e) == add_vertex(m, e.pt, e.smp)

\* add_vertex(compute_outer_vertex(u, v, P))
add_outer(m, u, v, p) == add_entry(m, OuterEntry(u, v, p))

\* p1..p4 = add_vertex(...) four times, then add_tri(p1, p2, p3) and
\* add_tri(p1, p3, p4)
add_quad(m, e1, e2, e3, e4) ==
    LET m1 == add_entry(m, e1)
        p1 == IndexOfLast(m1)
        m2 == add_entry(m1, e2)
        p2 == IndexOfLast(m2)
        m3 == add_entry(m2, e3)
        p3 == IndexOfLast(m3)
        m4 == add_entry(m3, e4)
        p4 == IndexOfLast(m4)
    IN  add_tri(add_tri(m4, p1, p2, p3), p1, p3, p4)

\* p1, p2 = add_vertex(...) twice, for a cap's fan
add_pair(m, e1, e2) == add_entry(add_entry(m, e1), e2)

\* The outer quilt cell between heights u1, u2 and azimuths v1, v2
OuterQuad(m, u1, u2, v1, v2, p) ==
    add_quad(m, OuterEntry(u1, v1, p), OuterEntry(u2, v1, p),
                OuterEntry(u2, v2, p), OuterEntry(u1, v2, p))

\* 1) one pass of the inner loop of the outer surface quilt
OuterCell(m, i, j, p) ==
    OuterQuad(m, GridAt(i, DetailOf(p)), GridAt(i + 1, DetailOf(p)),
                 v_at(j, DetailOf(p)), v_at(j + 1, DetailOf(p)), p)

\* 1b) the centre of the bottom cap
BottomCenter(m, p) ==
    add_vertex(m, <<0, -HalfOf(p.cylinderHeight), 0>>, PlainSample)

\* A slip: the fan reuses the rim vertex of the pass before it
BottomFanShared(m, center_bottom, j, p) ==
    LET n  == DetailOf(p)
        m1 == add_outer(m, ONE, v_at(j + 1, n), p)
        p2 == IndexOfLast(m1)
    IN  add_tri(m1, center_bottom, p2 - 1, p2)

\* add_tri(center_bottom, p1, p2) over the two vertices appended last
BottomTri(m2, center_bottom) ==
    add_tri(m2, center_bottom, IndexOfLast(m2) - 1, IndexOfLast(m2))

\* 1b) one pass of the fan loop
BottomFan(m, center_bottom, j, p) ==
    BottomTri(add_pair(m, OuterEntry(ONE, v_at(j, DetailOf(p)), p),
                          OuterEntry(ONE, v_at(j + 1, DetailOf(p)), p)),
              center_bottom)

\* transBottomY
TransBottomY(p) == HalfOf(p.cylinderHeight)

\* transTopY
TransTopY(p) == TransBottomY(p) + p.transitionHeight

\* topV1, topV2: the point at mount radius over azimuth a
TransitionTop(a, p) ==
    << Mul(Quot(p.mountCylinderOuterDiameter, 2), Cos(a)),
       TransTopY(p),
       Mul(Quot(p.mountCylinderOuterDiameter, 2), Sin(a)) >>

\* A slip: the blend runs from the mount circle down to the rim
Blend_reversed(bottomV, topV, t, y) ==
    PlainEntry(<<lerp(topV[1], bottomV[1], t), y, lerp(topV[3], bottomV[3], t)>>)

\* The blend of a rim point and the point over it, at t and height y
Blend(bottomV, topV, t, y) ==
    PlainEntry(<<lerp(bottomV[1], topV[1], t), y, lerp(bottomV[3], topV[3], t)>>)

\* P1..P4 of the transition and their two triangles
TransitionQuad(m, bottomV1, bottomV2, topV1, topV2, t1, t2, y1, y2) ==
    add_quad(m, Blend(bottomV1, topV1, t1, y1), Blend(bottomV1, topV1, t2, y2),
                Blend(bottomV2, topV2, t2, y2), Blend(bottomV2, topV2, t1, y1))

\* The transition cell between t1, t2 and azimuths a1, a2
TransitionAt(m, t1, t2, a1, a2, p) ==
    TransitionQuad(m, compute_outer_vertex(0, a1, p),
                      compute_outer_vertex(0, a2, p),
                      TransitionTop(a1, p), TransitionTop(a2, p), t1, t2,
                      lerp(TransBottomY(p), TransTopY(p), t1),
                      lerp(TransBottomY(p), TransTopY(p), t2))

\* 2) one pass of the inner loop of the transition
TransitionCell(m, i, j, p) ==
    TransitionAt(m, GridAt(i, DetailOf(p)), GridAt(i + 1, DetailOf(p)),
                    v_at(j, DetailOf(p)), v_at(j + 1, DetailOf(p)), p)

\* cylBottomY
CylBottomY(p) == HalfOf(p.cylinderHeight) + p.transitionHeight

\* cylTopY
CylTopY(p) == CylBottomY(p) + p.mountCylinderHeight

\* A point of the mount cylinder at azimuth a and height y
MountPoint(a, y, p) ==
    LET r_out == Quot(p.mountCylinderOuterDiameter, 2)
    IN  <<Mul(r_out, Cos(a)), y, Mul(r_out, Sin(a))>>

\* A slip: the side wall closes each strip with one triangle only
SideStripOneTri(m, i, p) ==
    LET n == DetailOf(p)
        a1 == v_at(i, n)
        a2 == v_at(i + 1, n)
        m1 == add_vertex(m, MountPoint(a1, CylBottomY(p), p), PlainSample)
        p1 == IndexOfLast(m1)
        m2 == add_vertex(m1, MountPoint(a1, CylTopY(p), p), PlainSample)
        p2 == IndexOfLast(m2)
        m3 == add_vertex(m2, MountPoint(a2, CylTopY(p), p), PlainSample)
        p3 == IndexOfLast(m3)
        m4 == add_vertex(m3, MountPoint(a2, CylBottomY(p), p), PlainSample)
    IN  add_tri(m4, p1, p2, p3)

\* The side wall strip between azimuths a1 and a2
SideQuad(m, a1, a2, p) ==
    add_quad(m, PlainEntry(MountPoint(a1, CylBottomY(p), p)),
                PlainEntry(MountPoint(a1, CylTopY(p), p)),
                PlainEntry(MountPoint(a2, CylTopY(p), p)),
                PlainEntry(MountPoint(a2, CylBottomY(p), p)))

\* 3) one pass of the side wall loop
SideStrip(m, i, p) ==
    SideQuad(m, v_at(i, DetailOf(p)), v_at(i + 1, DetailOf(p)), p)

\* 3) the centre of the top cap
TopCenter(m, p) == add_vertex(m, <<0, CylTopY(p), 0>>, PlainSample)

\* add_tri(center_top, p2, p1) over the two vertices appended last
TopTri(m2, center_top) ==
    add_tri(m2, center_top, IndexOfLast(m2), IndexOfLast(m2) - 1)

\* 3) one pass of the top cap loop
TopFan(m, center_top, j, p) ==
    TopTri(add_pair(m, PlainEntry(MountPoint(v_at(j, DetailOf(p)), CylTopY(p), p)),
                       PlainEntry(MountPoint(v_at(j + 1, DetailOf(p)), CylTopY(p), p))),
           center_top)

\* A slip: the derive steps called in the other order
DeriveReversed(p) == update_transition(update_feature_depth_max(p))

\* P.update_transition(); P.update_feature_depth_max()
Derive(p) == update_feature_depth_max(update_transition(p))

-----------------------------------------------------------------------------
(* The window's widgets as __init__ leaves them (main_window.py:39-67) *)

\* fd_scale = 10 ** decimals
fd_scale == 100

\* int(x * fd_scale) for a float x
ToSlider(x) == Quot(x * fd_scale, ONE)

\* float(value) / float(fd_scale)
FromSlider(n) == Quot(ToFloat(n), fd_scale)

InitialUi ==
    [ s_top |-> DefaultParams.topDiameter,
      s_mid |-> DefaultParams.middleDiameter,
      s_bot |-> DefaultParams.bottomDiameter,
      s_h   |-> DefaultParams.cylinderHeight,
      s_fc  |-> DefaultParams.featureCount,
      s_fd  |-> ToSlider(DefaultParams.featureDepth),
      s_fd_max |-> ToSlider(DefaultParams.featureDepthMax),
      s_det |-> DefaultParams.detail,
      s_ang |-> DefaultParams.overhangAngle,
      mode  |-> 1,
      interp |-> 0 ]

\* The window's part of the state, where no handler runs
WindowIdle ==
    /\ ui = InitialUi
    /\ timerActive = FALSE
    /\ loadStatus = [outcome |-> "none", line |-> <<>>]

\* The builder's part of the state, where no build runs
NoBuild ==
    /\ loop_i = 0 /\ loop_j = 0 /\ center = 0
    /\ vertices = <<>> /\ faces = <<>> /\ samples = <<>>

-----------------------------------------------------------------------------
(* main_window.py: the window.  A window state is the record [P, ui, timer]; *)
(* Qt delivers valueChanged and currentIndexChanged synchronously, so a      *)
(* setter that changes a widget runs schedule_rebuild before it returns.     *)

\* The eight sliders connected to schedule_rebuild (main_window.py:93-94)
Sliders == {"s_top", "s_mid", "s_bot", "s_h", "s_fc", "s_fd", "s_det", "s_ang"}

\* QSlider.minimum() as setRange left it (main_window.py:39-67, 126)
SliderMinimum(u, s) ==
    CASE s = "s_top" -> topDiameterMin
      [] s = "s_mid" -> middleDiameterMin
      [] s = "s_bot" -> bottomDiameterMin
      [] s = "s_h"   -> cylinderHeightMin
      [] s = "s_fc"  -> featureCountMin
      [] s = "s_fd"  -> ToSlider(DefaultParams.featureDepthMin)
      [] s = "s_det" -> detailMin
      [] s = "s_ang" -> overhangAngleMin

\* QSlider.maximum(); that of the feature depth slider moves
SliderMaximum(u, s) ==
    CASE s = "s_top" -> topDiameterMax
      [] s = "s_mid" -> middleDiameterMax
      [] s = "s_bot" -> bottomDiameterMax
      [] s = "s_h"   -> cylinderHeightMax
      [] s = "s_fc"  -> featureCountMax
      [] s = "s_fd"  -> u.s_fd_max
      [] s = "s_det" -> detailMax
      [] s = "s_ang" -> overhangAngleMax

\* The values sync_params_from_ui reads from the widgets
ParamsFromUi(p, u) ==
    [p EXCEPT !.topDiameter = u.s_top,
              !.middleDiameter = u.s_mid,
              !.bottomDiameter = u.s_bot,
              !.cylinderHeight = u.s_h,
              !.detail = u.s_det,
              !.overhangAngle = u.s_ang,
              !.featureCount = u.s_fc,
              !.featureDepth = FromSlider(u.s_fd),
              !.designMode = u.mode,
              !.interpolation = u.interp]

RECURSIVE schedule_rebuild(_)

\* QSlider.setValue with the signals live: the value is bound to the range
\* and, if it changed, valueChanged runs schedule_rebuild
setValue(w, s, val) ==
    LET v == clamp(val, SliderMinimum(w.ui, s), SliderMaximum(w.ui, s))
    IN  IF v = w.ui[s] THEN w
        ELSE schedule_rebuild([w EXCEPT !.ui[s] = v])

\* QSlider.setValue under a QSignalBlocker
setValueBlocked(w, s, val) ==
    [w EXCEPT !.ui[s] = clamp(val, SliderMinimum(w.ui, s), SliderMaximum(w.ui, s))]

\* s_fd.setMaximum with the signals live: the value is bound to the new range
setMaximum(w, mx) ==
    LET m  == Max2(SliderMinimum(w.ui, "s_fd"), mx)
        w1 == [w EXCEPT !.ui.s_fd_max = m]
    IN  IF w.ui.s_fd > m
        THEN schedule_rebuild([w1 EXCEPT !.ui.s_fd = m])
        ELSE w1

\* s_fd.setMaximum under a QSignalBlocker
setMaximumBlocked(w, mx) ==
    LET m == Max2(SliderMinimum(w.ui, "s_fd"), mx)
    IN  [w EXCEPT !.ui.s_fd_max = m, !.ui.s_fd = Min2(@, m)]

\* combo_mode.findData, then setCurrentIndex with the signals live
setMode(w, dm) ==
    IF dm \in 0..12 /\ dm # w.ui.mode
    THEN schedule_rebuild([w EXCEPT !.ui.mode = dm])
    ELSE w

\* main_window.py:167-168: the depth slider's value is brought under new_max
CapDepthValue(w, new_max) ==
    IF w.ui.s_fd > new_max THEN setValue(w, "s_fd", new_max) ELSE w

\* main_window.py:165-168: the depth slider is kept inside the new range
KeepDepthInRange(w, new_max) ==
    CapDepthValue(IF w.ui.s_fd_max # new_max THEN setMaximum(w, new_max) ELSE w,
                  new_max)

\* main_window.py:164-168, P being derived
FitDepthSlider(w) ==
    KeepDepthInRange(w, ToSlider(Max2(w.P.featureDepthMin, w.P.featureDepthMax)))

\* MainWindow.sync_params_from_ui
sync_params_from_ui(w) ==
    FitDepthSlider([w EXCEPT !.P = Derive(ParamsFromUi(w.P, w.ui))])

\* MainWindow.schedule_rebuild
schedule_rebuild(w) == [sync_params_from_ui(w) EXCEPT !.timer = TRUE]

\* MainWindow.rebuild_mesh_now: build_mesh_arrays refreshes the derived
\* fields of P; the mesh goes to the viewer, which keeps no state of P
rebuild_mesh_now(w) == [w EXCEPT !.P = Derive(@)]

-----------------------------------------------------------------------------
(* main_window.py: on_load and the text it reads *)

DigitChars == {"0", "1", "2", "3", "4", "5", "6", "7", "8", "9"}

DigitValue(c) ==
    CASE c = "0" -> 0 [] c = "1" -> 1 [] c = "2" -> 2 [] c = "3" -> 3
      [] c = "4" -> 4 [] c = "5" -> 5 [] c = "6" -> 6 [] c = "7" -> 7
      [] c = "8" -> 8 [] c = "9" -> 9

IsDigits(t) == \A k \in 1..Len(t) : t[k] \in DigitChars

\* The number a string of digits denotes
RECURSIVE NatOf(_)
NatOf(t) ==
    IF t = <<>> THEN 0
    ELSE 10 * NatOf(SubSeq(t, 1, Len(t) - 1)) + DigitValue(t[Len(t)])

\* line.split(",")
RECURSIVE SplitFrom(_, _, _, _)
SplitFrom(line, k, cur, acc) ==
    IF k > Len(line) THEN Append(acc, cur)
    ELSE IF line[k] = "," THEN SplitFrom(line, k + 1, <<>>, Append(acc, cur))
    ELSE SplitFrom(line, k + 1, Append(cur, line[k]), acc)

Split(line) == SplitFrom(line, 1, <<>>, <<>>)

\* int(tok): ok is FALSE where Python raises ValueError
ParseInt(tok) ==
    LET neg  == Len(tok) > 0 /\ tok[1] = "-"
        body == IF neg THEN Tail(tok) ELSE tok
        ok   == Len(body) > 0 /\ IsDigits(body)
    IN  [ ok |-> ok,
          value |-> IF ok THEN (IF neg THEN -NatOf(body) ELSE NatOf(body)) ELSE 0 ]

\* float(tok), in thousandths: digits, at most one point, a digit somewhere
ParseFloat(tok) ==
    LET neg   == Len(tok) > 0 /\ tok[1] = "-"
        body  == IF neg THEN Tail(tok) ELSE tok
        dots  == { k \in 1..Len(body) : body[k] = "." }
        dot   == IF dots = {} THEN Len(body) + 1
                 ELSE CHOOSE k \in dots : \A l \in dots : k <= l
        whole == SubSeq(body, 1, dot - 1)
        frac  == SubSeq(body, dot + 1, Len(body))
        ok    == /\ IsDigits(whole) /\ IsDigits(frac)
                 /\ Len(whole) + Len(frac) > 0
        milli == SubSeq(frac \o <<"0", "0", "0">>, 1, 3)
        mag   == ToFloat(NatOf(whole)) + NatOf(milli)
    IN  [ ok |-> ok, value |-> IF ok THEN (IF neg THEN -mag ELSE mag) ELSE 0 ]

\* The field each token is assigned to, in the order of on_load
LoadFields ==
    << "topDiameter", "middleDiameter", "bottomDiameter", "cylinderHeight",
       "featureCount", "featureDepth", "detail", "overhangAngle", "designMode" >>

\* int(toks[k]) or float(toks[k]), as on_load converts token k
ParseToken(k, tok) ==
    IF LoadFields[k] = "featureDepth" THEN ParseFloat(tok) ELSE ParseInt(tok)

\* main_window.py:274-282: the assignments, one after the other, until a
\* conversion raises
RECURSIVE AssignTokens(_, _, _)
AssignTokens(p, toks, k) ==
    IF k > Len(LoadFields) THEN [P |-> p, ok |-> TRUE]
    ELSE IF ~ParseToken(k, toks[k]).ok THEN [P |-> p, ok |-> FALSE]
    ELSE AssignTokens([p EXCEPT ![LoadFields[k]] = ParseToken(k, toks[k]).value],
                      toks, k + 1)

\* self.s_x.setValue(P.field), signals live
pushField(w, s, field) == setValue(w, s, w.P[field])

\* self.s_fd.setMaximum(int(max(P.featureDepthMin, P.featureDepthMax) * fd_scale))
pushDepthMaximum(w) ==
    setMaximum(w, ToSlider(Max2(w.P.featureDepthMin, w.P.featureDepthMax)))

\* self.s_fd.setValue(int(P.featureDepth * fd_scale))
pushDepth(w) == setValue(w, "s_fd", ToSlider(w.P.featureDepth))

\* combo_mode.findData(P.designMode), setCurrentIndex
pushMode(w) == setMode(w, w.P.designMode)

\* main_window.py:287-298: the values of P pushed to the widgets, signals live,
\* each statement reading P as the statements before it left it
PushLoaded(w) ==
    pushMode(pushDepth(pushDepthMaximum(
        pushField(pushField(pushField(pushField(pushField(pushField(pushField(
            w, "s_top", "topDiameter"),
               "s_mid", "middleDiameter"),
               "s_bot", "bottomDiameter"),
               "s_h", "cylinderHeight"),
               "s_det", "detail"),
               "s_ang", "overhangAngle"),
               "s_fc", "featureCount"))))

\* main_window.py:283-301, the tokens converted: derive, push, rebuild
LoadConverted(w, got) ==
    IF ~got.ok THEN [w |-> [w EXCEPT !.P = got.P], ok |-> FALSE]
    ELSE [ w |-> rebuild_mesh_now(PushLoaded([w EXCEPT !.P = Derive(got.P)])),
           ok |-> TRUE ]

\* main_window.py:271-301 on the tokens of the line
LoadTokens(w, toks) ==
    IF Len(toks) < 9 THEN [w |-> w, ok |-> FALSE]
    ELSE LoadConverted(w, AssignTokens(w.P, toks, 1))

\* MainWindow.on_load on the text of the chosen file: the window after it,
\* and whether it ran to its end (FALSE: it ended in the except branch)
on_load(w, line) == LoadTokens(w, Split(line))

-----------------------------------------------------------------------------
(* main_window.py: on_randomize *)

\* main_window.py:200: uniform(featureDepthMin, max(featureDepthMin,
\* featureDepthMax)), frac being where in the interval the draw falls
DrawDepth(p, frac) ==
    [p EXCEPT !.featureDepth =
        p.featureDepthMin
        + Mul(Max2(p.featureDepthMin, p.featureDepthMax) - p.featureDepthMin,
              frac)]

\* main_window.py:190-200, for the numbers d that randint and uniform return
Randomized(p, d) ==
    DrawDepth(Derive([p EXCEPT !.topDiameter = d.top,
                               !.middleDiameter = d.mid,
                               !.bottomDiameter = d.bot,
                               !.cylinderHeight = d.h,
                               !.featureCount = d.fc,
                               !.designMode = d.mode,
                               !.interpolation = d.interp]),
              d.frac)

\* main_window.py:203-226: the values pushed to the widgets, signals blocked
PushRandomized(w) ==
    LET w1 == setValueBlocked(w, "s_top", w.P.topDiameter)
        w2 == setValueBlocked(w1, "s_mid", w.P.middleDiameter)
        w3 == setValueBlocked(w2, "s_bot", w.P.bottomDiameter)
        w4 == setValueBlocked(w3, "s_h", w.P.cylinderHeight)
        w5 == setValueBlocked(w4, "s_fc", w.P.featureCount)
        w6 == setMaximumBlocked(w5, ToSlider(Max2(w.P.featureDepthMin,
                                                  w.P.featureDepthMax)))
        w7 == setValueBlocked(w6, "s_fd", ToSlider(w.P.featureDepth))
    IN  [w7 EXCEPT !.ui.mode = IF w.P.designMode \in 0..12
                                THEN w.P.designMode ELSE @,
                   !.ui.interp = w.P.interpolation]

\* MainWindow.on_randomize
on_randomize(w, d) ==
    rebuild_mesh_now(sync_params_from_ui(
        PushRandomized([w EXCEPT !.P = Randomized(w.P, d)])))

-----------------------------------------------------------------------------
(* Spec: the window, one action per handler *)

\* The positions the user drags the sliders to
SliderChoices ==
    [ s_top |-> {16, 30}, s_mid |-> {}, s_bot |-> {}, s_h |-> {},
      s_fc |-> {}, s_fd |-> {0, 400}, s_det |-> {}, s_ang |-> {} ]

\* The entries the user picks in the two combo boxes
ModeChoices == {1, 4}
InterpolationChoices == {0, 1}

\* What randint and uniform return in on_randomize
RandomDraws ==
    { [top |-> 16, mid |-> 30, bot |-> 60, h |-> 80, fc |-> 6,
       mode |-> 2, interp |-> 1, frac |-> ONE \div 2] }

\* The text of the design files the user opens
LineInRange ==
    <<"5", "0", ",", "9", "0", ",", "6", "0", ",", "8", "0", ",", "6", ",", "1", ".", "5", ",", "1", "2", "0", ",", "4", "5", ",", "4">>
LineNarrowTop ==
    <<"1", "6", ",", "7", "0", ",", "6", "0", ",", "8", "0", ",", "6", ",", "3", ".", "0", ",", "1", "2", "0", ",", "3", "0", ",", "2">>
LineShort ==
    <<"5", "0", ",", "9", "0", ",", "6", "0">>
LineBadSecond ==
    <<"5", "0", ",", "9", ".", "5", ",", "6", "0", ",", "8", "0", ",", "6", ",", "1", ".", "5", ",", "1", "2", "0", ",", "4", "5", ",", "4">>
LineBadDepth ==
    <<"1", "6", ",", "7", "0", ",", "6", "0", ",", "8", "0", ",", "6", ",", "2", ".", "0", ".", "1", ",", "1", "2", "0", ",", "3", "0", ",", "2">>

LoadLines ==
    { LineInRange, LineNarrowTop, LineShort, LineBadSecond, LineBadDepth }

\* The window state
Window == [P |-> P, ui |-> ui, timer |-> timerActive]

\* The window state becomes w
Becomes(w) ==
    /\ P' = w.P
    /\ ui' = w.ui
    /\ timerActive' = w.timer

\* No build_mesh_arrays is modelled in progress beside the handlers
Idle == UNCHANGED <<pc, loop_i, loop_j, center, vertices, faces, samples>>

\* Any handler but on_load has run: no load to speak of
NoLoad ==
    /\ loadStatus' = [outcome |-> "none", line |-> <<>>]
    /\ Pentry' = P'

\* on_load has run: how it ended, on which text, and P as it found it
Loaded(outcome, line) ==
    /\ loadStatus' = [outcome |-> outcome, line |-> line]
    /\ Pentry' = P

Init ==
    /\ P = Derive(DefaultParams)
    /\ Pentry = P
    /\ pc = "idle"
    /\ NoBuild
    /\ ui = InitialUi
    /\ timerActive = FALSE
    /\ loadStatus = [outcome |-> "none", line |-> <<>>]

\* The user drags a slider: valueChanged -> schedule_rebuild
SliderMoved ==
    \E s \in Sliders : \E v \in SliderChoices[s] :
        /\ v # ui[s]
        /\ v \in SliderMinimum(ui, s)..SliderMaximum(ui, s)
        /\ Becomes(setValue(Window, s, v))
        /\ NoLoad
        /\ Idle

\* The user picks a design mode: currentIndexChanged -> schedule_rebuild
ModeChosen ==
    \E dm \in ModeChoices :
        /\ dm # ui.mode
        /\ Becomes(setMode(Window, dm))
        /\ NoLoad
        /\ Idle

\* The user picks an interpolation: currentIndexChanged -> schedule_rebuild
InterpolationChosen ==
    \E ip \in InterpolationChoices :
        /\ ip # ui.interp
        /\ Becomes(schedule_rebuild([Window EXCEPT !.ui.interp = ip]))
        /\ NoLoad
        /\ Idle

\* update_timer.timeout -> rebuild_mesh_now (single shot)
TimerFires ==
    /\ timerActive
    /\ Becomes([rebuild_mesh_now(Window) EXCEPT !.timer = FALSE])
    /\ NoLoad
    /\ Idle

\* btn_random.clicked -> on_randomize
OnRandomize ==
    \E d \in RandomDraws :
        /\ Becomes(on_randomize(Window, d))
        /\ NoLoad
        /\ Idle

\* btn_save.clicked -> on_save: the widgets are synced, then the file written
OnSave ==
    /\ Becomes(sync_params_from_ui(Window))
    /\ NoLoad
    /\ Idle

\* btn_export.clicked -> on_export: sync, then (unless the dialog is
\* cancelled) build_trimesh_for_export
OnExport ==
    \E chosen \in BOOLEAN :
        /\ Becomes(IF chosen THEN rebuild_mesh_now(sync_params_from_ui(Window))
                   ELSE sync_params_from_ui(Window))
        /\ NoLoad
        /\ Idle

\* btn_load.clicked -> on_load, the dialog cancelled
OnLoadCancelled ==
    /\ UNCHANGED <<P, ui, timerActive>>
    /\ Loaded("cancelled", <<>>)
    /\ Idle

\* btn_load.clicked -> on_load on a chosen file
OnLoad ==
    \E line \in LoadLines : \E r \in {on_load(Window, line)} :
        /\ Becomes(r.w)
        /\ Loaded(IF r.ok THEN "ok" ELSE "failed", line)
        /\ Idle

Next ==
    \/ SliderMoved
    \/ ModeChosen
    \/ InterpolationChosen
    \/ TimerFires
    \/ OnRandomize
    \/ OnSave
    \/ OnExport
    \/ OnLoadCancelled
    \/ OnLoad

Spec == Init /\ [][Next]_vars

-----------------------------------------------------------------------------
(* SpecDerive: the two derive steps on an arbitrary Params *)

DeriveTops == {10, 16, 30, 100}
DeriveMiddles == {10, 30, 70}
DeriveBottoms == {30, 60}
DeriveDepths == {-1000, 0, 2000, 9000}
DeriveDepthMins == {0, 1000, 5000}
DeriveDepthMaxs == {-1000, 0, 4000, 20000}
DeriveWidths == {0, 8500, 43500}
DeriveAngles == {30, 80}

DeriveParams ==
    { [DefaultParams EXCEPT !.topDiameter = t, !.middleDiameter = m,
                            !.bottomDiameter = b, !.featureDepth = fd,
                            !.featureDepthMin = lo, !.featureDepthMax = hi,
                            !.transitionWidth = w, !.overhangAngle = a] :
        t \in DeriveTops, m \in DeriveMiddles, b \in DeriveBottoms,
        fd \in DeriveDepths, lo \in DeriveDepthMins, hi \in DeriveDepthMaxs,
        w \in DeriveWidths, a \in DeriveAngles }

InitDerive ==
    /\ P \in DeriveParams
    /\ Pentry = P
    /\ pc = "params"
    /\ NoBuild
    /\ WindowIdle

\* a caller runs P.update_transition()
CallUpdateTransition ==
    /\ pc = "params"
    /\ P' = update_transition(P)
    /\ pc' = "widthSet"
    /\ UNCHANGED <<loop_i, loop_j, center, vertices, faces, samples,
                   ui, timerActive, loadStatus, Pentry>>

\* and then P.update_feature_depth_max()
CallUpdateFeatureDepthMax ==
    /\ pc = "widthSet"
    /\ P' = update_feature_depth_max(P)
    /\ pc' = "derived"
    /\ UNCHANGED <<loop_i, loop_j, center, vertices, faces, samples,
                   ui, timerActive, loadStatus, Pentry>>

NextDerive == CallUpdateTransition \/ CallUpdateFeatureDepthMax

SpecDerive == InitDerive /\ [][NextDerive]_vars

-----------------------------------------------------------------------------
(* SpecMesh: build_mesh_arrays on a bounded family of Params, one action    *)
(* per pass of each loop                                                    *)

\* largest detail of the family
MaxDetail == 4

MeshTops == {16, 30}
MeshCounts == {1, 6}
MeshModes == 0..13
MeshInterpolations == 0..3
MeshDetails == 0..MaxDetail
MeshWidths == {0, 43500}

MeshParams ==
    { [DefaultParams EXCEPT !.topDiameter = t, !.featureCount = fc,
                            !.featureDepth = DefaultParams.featureDepthMax,
                            !.designMode = dm, !.interpolation = ip,
                            !.detail = d, !.transitionWidth = w] :
        t \in MeshTops, fc \in MeshCounts, dm \in MeshModes,
        ip \in MeshInterpolations, d \in MeshDetails, w \in MeshWidths }

\* Params whose Lagrange profile dips below zero between the rims (a load
\* leaves such values in P when the widgets already sit at their bounds),
\* with the pattern disabled or unrecognized
ThinWaistModes == {-1, 0, 13}

ThinWaistParams ==
    { [DefaultParams EXCEPT !.topDiameter = 100, !.middleDiameter = 4,
                            !.bottomDiameter = 8, !.interpolation = 1,
                            !.designMode = dm, !.detail = d] :
        dm \in ThinWaistModes, d \in MeshDetails }

InitMesh ==
    /\ P \in MeshParams \cup ThinWaistParams
    /\ Pentry = P
    /\ pc = "entry"
    /\ NoBuild
    /\ WindowIdle

\* The mesh under construction
TheMesh == [vertices |-> vertices, faces |-> faces, samples |-> samples]

\* The lists become those of m
Emit(m) ==
    /\ vertices' = m.vertices
    /\ faces' = m.faces
    /\ samples' = m.samples

\* The window and P are left alone
BuildFrame == UNCHANGED <<P, ui, timerActive, loadStatus, Pentry>>

\* for i in range(detail): for j in range(detail): the position after (i, j)
NextCell(n) ==
    /\ loop_j' = IF loop_j + 1 < n THEN loop_j + 1 ELSE 0
    /\ loop_i' = IF loop_j + 1 < n THEN loop_i ELSE loop_i + 1

\* geometry.py:118-131
BuildEnter ==
    /\ pc = "entry"
    /\ P' = Derive(P)
    /\ Emit(EmptyMesh)
    /\ pc' = "outer"
    /\ loop_i' = 0 /\ loop_j' = 0
    /\ UNCHANGED <<center, ui, timerActive, loadStatus, Pentry>>

\* geometry.py:135-146, one pass
OuterPass ==
    /\ pc = "outer"
    /\ loop_i < DetailOf(P)
    /\ Emit(OuterCell(TheMesh, loop_i, loop_j, P))
    /\ NextCell(DetailOf(P))
    /\ UNCHANGED <<pc, center>>
    /\ BuildFrame

\* geometry.py:149, once the quilt's loop has ended
BottomCenterStep ==
    /\ pc = "outer"
    /\ loop_i >= DetailOf(P)
    /\ Emit(BottomCenter(TheMesh, P))
    /\ center' = IndexOfLast(BottomCenter(TheMesh, P))
    /\ pc' = "bottom"
    /\ loop_i' = 0 /\ loop_j' = 0
    /\ BuildFrame

\* geometry.py:150-155, one pass
BottomPass ==
    /\ pc = "bottom"
    /\ loop_j < DetailOf(P)
    /\ Emit(BottomFan(TheMesh, center, loop_j, P))
    /\ loop_j' = loop_j + 1
    /\ UNCHANGED <<pc, loop_i, center>>
    /\ BuildFrame

\* geometry.py:158-160, once the fan's loop has ended
TransitionEnter ==
    /\ pc = "bottom"
    /\ loop_j >= DetailOf(P)
    /\ pc' = "skirt"
    /\ loop_i' = 0 /\ loop_j' = 0
    /\ UNCHANGED <<center, vertices, faces, samples>>
    /\ BuildFrame

\* geometry.py:162-188, one pass
TransitionPass ==
    /\ pc = "skirt"
    /\ loop_i < DetailOf(P)
    /\ Emit(TransitionCell(TheMesh, loop_i, loop_j, P))
    /\ NextCell(DetailOf(P))
    /\ UNCHANGED <<pc, center>>
    /\ BuildFrame

\* geometry.py:191-193, once the transition's loop has ended
MountEnter ==
    /\ pc = "skirt"
    /\ loop_i >= DetailOf(P)
    /\ pc' = "side"
    /\ loop_i' = 0 /\ loop_j' = 0
    /\ UNCHANGED <<center, vertices, faces, samples>>
    /\ BuildFrame

\* geometry.py:196-204, one pass
SidePass ==
    /\ pc = "side"
    /\ loop_i < DetailOf(P)
    /\ Emit(SideStrip(TheMesh, loop_i, P))
    /\ loop_i' = loop_i + 1
    /\ UNCHANGED <<pc, loop_j, center>>
    /\ BuildFrame

\* geometry.py:207, once the side wall's loop has ended
TopCenterStep ==
    /\ pc = "side"
    /\ loop_i >= DetailOf(P)
    /\ Emit(TopCenter(TheMesh, P))
    /\ center' = IndexOfLast(TopCenter(TheMesh, P))
    /\ pc' = "cap"
    /\ loop_i' = 0 /\ loop_j' = 0
    /\ BuildFrame

\* geometry.py:208-213, one pass
TopPass ==
    /\ pc = "cap"
    /\ loop_j < DetailOf(P)
    /\ Emit(TopFan(TheMesh, center, loop_j, P))
    /\ loop_j' = loop_j + 1
    /\ UNCHANGED <<pc, loop_i, center>>
    /\ BuildFrame

\* geometry.py:215-217, once the cap's loop has ended
BuildReturn ==
    /\ pc = "cap"
    /\ loop_j >= DetailOf(P)
    /\ pc' = "done"
    /\ UNCHANGED <<loop_i, loop_j, center, vertices, faces, samples>>
    /\ BuildFrame

NextMesh ==
    \/ BuildEnter
    \/ OuterPass
    \/ BottomCenterStep
    \/ BottomPass
    \/ TransitionEnter
    \/ TransitionPass
    \/ MountEnter
    \/ SidePass
    \/ TopCenterStep
    \/ TopPass
    \/ BuildReturn

SpecMesh == InitMesh /\ [][NextMesh]_vars

-----------------------------------------------------------------------------
(* Claims about the derive steps (SpecDerive) *)

\* The premise of C1: the mount collar fits inside the smallest main radius
MountFits(p) == MountOuterRadius(p) <= MinimalMainRadius(p)

C16_DeriveIdempotent ==
    pc = "derived" =>
        /\ Derive(P) = P
        /\ update_transition(P) = P
        /\ update_feature_depth_max(P) = P

\* C16's case: the first run changed all four derived fields, from a
\* stale transitionWidth and a featureDepth above its bound
C16_Witness ==
    /\ pc = "derived"
    /\ Pentry.transitionWidth # P.transitionWidth
    /\ Pentry.transitionHeight # P.transitionHeight
    /\ Pentry.featureDepthMax > P.featureDepthMax
    /\ Pentry.featureDepth > P.featureDepth
    /\ Derive(P) = P

-----------------------------------------------------------------------------
(* Claims about build_mesh_arrays (SpecMesh) *)

\* The derive steps of the build have run
Built == pc \in {"outer", "bottom", "skirt", "side", "cap", "done"}

\* Every user input lies inside its slider range (detail apart, which the
\* family keeps small)
InSliderRanges(p) ==
    /\ p.topDiameter \in topDiameterMin..topDiameterMax
    /\ p.middleDiameter \in middleDiameterMin..middleDiameterMax
    /\ p.bottomDiameter \in bottomDiameterMin..bottomDiameterMax
    /\ p.cylinderHeight \in cylinderHeightMin..cylinderHeightMax
    /\ p.overhangAngle \in overhangAngleMin..overhangAngleMax
    /\ p.featureCount \in featureCountMin..featureCountMax
    /\ p.featureDepthMin = DefaultParams.featureDepthMin
    /\ p.featureDepth \in p.featureDepthMin..DefaultParams.featureDepthMax
    /\ p.designMode \in 0..12
    /\ p.interpolation \in 0..2

\* The samples compute_outer_vertex has evaluated so far
OuterSamples == { k \in 1..Len(samples) : samples[k].kind = "outer" }

\* C2: after the derive steps, for inputs inside the slider ranges, every
\* outer-shell radius max(0, profile + pattern) is at least the mount
\* collar's radius mountCylinderOuterDiameter/2.
C2_ShellNeverThinnerThanMount ==
    (Built /\ InSliderRanges(Pentry))
        => \A k \in OuterSamples : samples[k].r >= MountOuterRadius(P)

\* C3: with detail < 1 the build returns no vertex and no triangle.
C3_DegenerateDetailIsEmpty ==
    (pc = "done" /\ DetailOf(P) < 1)
        => (Len(vertices) = 0 /\ Len(faces) = 0)

\* The quilt's cell c (from 0) owns vertices 4c..4c+3 and its two triangles
QuiltCellFaces(c) ==
    /\ faces[2 * c + 1] = <<4 * c, 4 * c + 1, 4 * c + 2>>
    /\ faces[2 * c + 2] = <<4 * c, 4 * c + 2, 4 * c + 3>>

\* C4: for detail = D >= 1 the build emits, in this order, 2*D*D outer-shell
\* triangles on 4*D*D fresh vertices, D bottom-cap triangles, 2*D*D transition
\* triangles, 2*D mount-side triangles and D top-cap triangles: 4*D*D + 4*D
\* triangles in all, whatever the other parameters are.
C4_RegionCounts ==
    LET D == DetailOf(P) IN
    (Built /\ D >= 1) =>
        /\ (pc = "outer" /\ loop_i >= D) =>
              /\ Len(faces) = 2 * D * D
              /\ Len(vertices) = 4 * D * D
        /\ (pc = "bottom") =>
              /\ Len(faces) = 2 * D * D + loop_j
              /\ \A c \in 0..(D * D - 1) : QuiltCellFaces(c)
        /\ (pc = "skirt") =>
              /\ loop_i = 0 /\ loop_j = 0 => Len(faces) = 2 * D * D + D
              /\ loop_i >= D => Len(faces) = 4 * D * D + D
        /\ (pc = "side") => Len(faces) = 4 * D * D + D + 2 * loop_i
        /\ (pc = "cap") => Len(faces) = 4 * D * D + 3 * D + loop_j
        /\ (pc = "done") => Len(faces) = 4 * D * D + 4 * D

\* C4's case: a finished build with several rows and columns
C4_Witness ==
    /\ pc = "done"
    /\ DetailOf(P) = 3
    /\ Len(faces) = 48
    /\ P.designMode = 12 /\ P.interpolation = 2

\* The bottom cap has ended
BottomCapEnded == pc = "bottom" /\ loop_j >= DetailOf(P) /\ DetailOf(P) >= 1

\* C5 as stated: for detail = D >= 1 the bottom cap appends D + 1 vertices
\* (the centre and D rim samples) and D triangles.
C5_BottomCapSharesRim ==
    LET D == DetailOf(P) IN
    BottomCapEnded =>
        /\ Len(vertices) - 4 * D * D = D + 1
        /\ Len(faces) - 2 * D * D = D

\* C5 as amended: the bottom cap appends 2*D + 1 vertices (the centre, then
\* two rim samples at u = 1 for every fan triangle) and D triangles
\* (centre, p_j, p_{j+1}), p_j sampled at v_at(j) and p_{j+1} at v_at(j+1).
C5_BottomCapCounts ==
    LET D == DetailOf(P)
        c == 4 * D * D
    IN  BottomCapEnded =>
        /\ Len(vertices) - c = 2 * D + 1
        /\ Len(faces) - 2 * D * D = D
        /\ center = c
        /\ vertices[c + 1] = <<0, -HalfOf(P.cylinderHeight), 0>>
        /\ \A j \in 0..(D - 1) :
              /\ faces[2 * D * D + j + 1] = <<c, c + 2 * j + 1, c + 2 * j + 2>>
              /\ samples[c + 2 * j + 2].u = ONE
              /\ samples[c + 2 * j + 2].v = v_at(j, D)
              /\ samples[c + 2 * j + 3].u = ONE
              /\ samples[c + 2 * j + 3].v = v_at(j + 1, D)

\* C5's case: a bottom cap of several fan triangles has ended
C5_Witness == BottomCapEnded /\ DetailOf(P) = 3 /\ Len(vertices) = 43

\* C7: build_mesh_arrays runs update_transition, then
\* update_feature_depth_max, before it emits a vertex: from any Params on
\* entry, stale derived fields included, the build works with
\* transitionWidth = (topDiameter - mountCylinderOuterDiameter)/2, the
\* transitionHeight that follows from it, and a featureDepthMax bounded by
\* means of that refreshed transitionWidth.
C7_BuildSynchronizesDerived ==
    LET tw == Quot(ToFloat(Pentry.topDiameter)
                   - Pentry.mountCylinderOuterDiameter, 2)
        th == Mul(Max2(0, tw), Tan(Radians(Pentry.overhangAngle)))
        fresh == [Pentry EXCEPT !.transitionWidth = tw]
    IN  /\ pc = "entry" => Len(vertices) = 0
        /\ Built =>
              /\ P.transitionWidth = tw
              /\ P.transitionHeight = th
              /\ P.featureDepthMax
                    <= Max2(0, MinimalMainRadius(fresh) - MountOuterRadius(fresh))
              /\ P.featureDepth <= Max2(P.featureDepthMin, P.featureDepthMax)
        /\ pc \in {"cap", "done"} =>
              vertices[center + 1] =
                  <<0, HalfOf(P.cylinderHeight) + th + P.mountCylinderHeight, 0>>

\* C7's case: a build entered with a stale transitionWidth has emitted its mesh
C7_Witness ==
    /\ pc = "done"
    /\ Pentry.transitionWidth > P.transitionWidth
    /\ Pentry.featureDepthMax > P.featureDepthMax
    /\ Len(vertices) > 2

\* C9: in every interpolation mode (0, 1, 2, and any other value) the profile
\* is topDiameter/2 at u = 0 and bottomDiameter/2 at u = 1.
C9_ProfileAnchors ==
    \A k \in OuterSamples :
        /\ samples[k].u = 0 => samples[k].baseR = HalfOf(P.topDiameter)
        /\ samples[k].u = ONE => samples[k].baseR = HalfOf(P.bottomDiameter)

\* C9's case: both rims have been sampled in a mode other than 0, 1, 2 and
\* in Lagrange mode
C9_Witness ==
    /\ P.interpolation \in {1, 3}
    /\ P.topDiameter # P.bottomDiameter
    /\ \E k \in OuterSamples : samples[k].u = 0
    /\ \E k \in OuterSamples : samples[k].u = ONE
    /\ \E k \in OuterSamples : samples[k].u \notin {0, ONE}

C8_FailedLoadLeavesParams ==
    loadStatus.outcome = "failed" => P = Pentry

\* C11 as stated: with designMode 0, or any designMode outside 1..12,
\* design_offset is 0 and the radius of every outer-shell vertex equals
\* quadratic_profile(u).
C11_DisabledPatternRadiusIsProfile ==
    P.designMode \notin 1..12 =>
        \A k \in OuterSamples :
            /\ samples[k].offset = 0
            /\ samples[k].r = samples[k].baseR

\* C11 as amended: with designMode outside 1..12, design_offset is 0 and the
\* radius of every outer-shell vertex is max(0, quadratic_profile(u)): the
\* profile itself where it is not negative, 0 where it is, and the same for
\* every v at one u.
C11_DisabledPatternRadiusIsClampedProfile ==
    P.designMode \notin 1..12 =>
        \A k \in OuterSamples :
            /\ samples[k].offset = 0
            /\ samples[k].baseR = quadratic_profile(samples[k].u, P)
            /\ samples[k].r = Max2(0, samples[k].baseR)
            /\ \A l \in OuterSamples :
                  samples[l].u = samples[k].u => samples[l].r = samples[k].r

\* C11's case: an unrecognized designMode, sampled at several azimuths where
\* the profile is positive and where it is negative
C11_Witness ==
    /\ P.designMode = 13
    /\ \E k \in OuterSamples : samples[k].baseR < 0 /\ samples[k].r = 0
    /\ \E k, l \in OuterSamples :
          /\ samples[k].u = samples[l].u
          /\ samples[k].v # samples[l].v
          /\ samples[k].r > 0

\* Where the regions start in the vertex list, for detail D: the skirt after
\* the quilt and the bottom cap, the side wall after the skirt
SkirtStart(D) == 4 * D * D + 2 * D + 1
SideStart(D) == SkirtStart(D) + 4 * D * D

\* C13: for every angular sample, the skirt's vertices at blend fraction 0
\* are the decorated outer-shell vertices compute_outer_vertex(0, v), at
\* height cylinderHeight/2 and equal to the quilt's top-row vertices; its
\* vertices at blend fraction 1 lie on the circle of radius
\* mountCylinderOuterDiameter/2 at height cylinderHeight/2 + transitionHeight
\* and are the bottom ring of the mount cylinder's side wall.
C13_SkirtJoinsNeighbours ==
    LET D  == DetailOf(P)
        lo(j) == SkirtStart(D) + 4 * j
        hi(j) == SkirtStart(D) + 4 * ((D - 1) * D + j)
    IN  (pc \in {"side", "cap", "done"} /\ D >= 1) =>
        \A j \in 0..(D - 1) :
            /\ vertices[lo(j) + 1] = compute_outer_vertex(0, v_at(j, D), P)
            /\ vertices[lo(j) + 4] = compute_outer_vertex(0, v_at(j + 1, D), P)
            /\ vertices[lo(j) + 1][2] = HalfOf(P.cylinderHeight)
            /\ vertices[lo(j) + 1] = vertices[4 * j + 1]
            /\ vertices[lo(j) + 4] = vertices[4 * j + 4]
            /\ vertices[hi(j) + 2] =
                  << Mul(MountOuterRadius(P), Cos(v_at(j, D))),
                     HalfOf(P.cylinderHeight) + P.transitionHeight,
                     Mul(MountOuterRadius(P), Sin(v_at(j, D))) >>
            /\ vertices[hi(j) + 3] =
                  << Mul(MountOuterRadius(P), Cos(v_at(j + 1, D))),
                     HalfOf(P.cylinderHeight) + P.transitionHeight,
                     Mul(MountOuterRadius(P), Sin(v_at(j + 1, D))) >>
            /\ (pc \in {"cap", "done"}) =>
                  /\ vertices[SideStart(D) + 4 * j + 1] = vertices[hi(j) + 2]
                  /\ vertices[SideStart(D) + 4 * j + 4] = vertices[hi(j) + 3]

\* C13's case: a finished build of several rows whose top rim is displaced
\* by the pattern and whose skirt rises
C13_Witness ==
    /\ pc = "done"
    /\ DetailOf(P) = 3
    /\ P.transitionHeight > 0
    /\ \E k \in OuterSamples : samples[k].u = 0 /\ samples[k].offset # 0

\* The vertex indices that the triangles emitted so far refer to
UsedIndices == { faces[k][n] : k \in 1..Len(faces), n \in 1..3 }

\* The largest index of a triangle
FaceMax(f) == Max2(f[1], Max2(f[2], f[3]))

\* C15: for every detail >= 0, at every point of the build, each triangle
\* index is a position of the vertex list (0 <= index < number of vertices),
\* the three indices of a triangle are pairwise distinct, and add_vertex has
\* handed out 0, 1, 2, ... in order without a gap: the largest index of a
\* triangle never falls below that of the triangle before it, a cap's centre
\* is the position its add_vertex filled, and a finished build with
\* detail >= 1 leaves no position unused.
C15_TriangleIndicesValid ==
    /\ Len(samples) = Len(vertices)
    /\ \A k \in 1..Len(faces) :
          /\ \A n \in 1..3 : faces[k][n] \in 0..(Len(vertices) - 1)
          /\ faces[k][1] # faces[k][2]
          /\ faces[k][1] # faces[k][3]
          /\ faces[k][2] # faces[k][3]
    /\ \A k \in 1..(Len(faces) - 1) : FaceMax(faces[k]) <= FaceMax(faces[k + 1])
    /\ pc \in {"bottom", "cap"} => center = Len(vertices) - 1 - 2 * loop_j
    /\ (pc = "done" /\ DetailOf(P) >= 1) =>
          UsedIndices = 0..(Len(vertices) - 1)

\* C15's case: a finished build of several rows whose triangles use every
\* position
C15_Witness ==
    /\ pc = "done"
    /\ DetailOf(P) = 3
    /\ Len(vertices) = 98
    /\ UsedIndices = 0..97

-----------------------------------------------------------------------------
(* Claims about the window (Spec) *)

\* The bound update_feature_depth_max computes from p
DepthBound(p) == Max2(0, MinimalMainRadius(p) - MountOuterRadius(p))

\* C12: over every handler of the window (slider and combo changes, the
\* timer, randomize, save, export, load), featureDepthMax of the window's
\* Params never increases and, having started at 4.0, is never negative.
C12_DepthMaxNeverIncreases ==
    [][/\ P'.featureDepthMax <= P.featureDepthMax
       /\ P'.featureDepthMax >= 0
       /\ P'.featureDepthMax <= DefaultParams.featureDepthMax]_vars

\* C12's case: the top diameter has been narrowed and widened again; the
\* bound computed from P is back above 4.0 while featureDepthMax has stayed
\* at the lower value
C12_Witness ==
    /\ P.topDiameter = 30
    /\ ui.s_top = 30
    /\ P = Derive(P)
    /\ DepthBound(P) > DefaultParams.featureDepthMax
    /\ P.featureDepthMax < DefaultParams.featureDepthMax
    /\ P.featureDepthMax > 0

\* The values on_load reads from the nine tokens of a line
FileValues(line) == AssignTokens(DefaultParams, Split(line), 1).P

\* The fields C14 is about
LoadedFields ==
    { "topDiameter", "middleDiameter", "bottomDiameter", "cylinderHeight",
      "featureCount", "detail", "overhangAngle", "designMode" }

\* C14: after on_load has succeeded on a file whose nine values lie inside
\* their slider ranges, topDiameter, middleDiameter, bottomDiameter,
\* cylinderHeight, featureCount, detail, overhangAngle and designMode of P
\* equal the values read from the file, whatever the widgets showed before:
\* no valueChanged callback has put a stale widget value over a loaded field.
C14_LoadKeepsLoadedFields ==
    (/\ loadStatus.outcome = "ok"
     /\ InSliderRanges(FileValues(loadStatus.line))
     /\ FileValues(loadStatus.line).detail \in detailMin..detailMax)
        => \A f \in LoadedFields : P[f] = FileValues(loadStatus.line)[f]

====
